---- MODULE Spec2Model ----
(***************************************************************************)
(* Model of the biosolid dispatch simulation:                              *)
(*   - DataManager (rain-lock matrix, per-day demand snapshot),            *)
(*   - GreedySolver (day loop, urgency ranking, per-plant greedy dispatch),*)
(*   - calculate_metrics (replay of the solution log, overflow penalty).   *)
(* Tons, kilograms of nitrogen, millimetres and kilometres are integers.   *)
(* Scores are kept in tenths of a kg CO2 (the source multiplies by 1.1 and *)
(* 0.9; every score below is the source's score times ten).                *)
(***************************************************************************)
EXTENDS Integers, Sequences, FiniteSets, TLC

\* ---------------------------------------------------------------- bounds
NumDays == 3
MaxSTP == 2
MaxFarm == 2
NumZone == 2

\* ------------------------------------------------- configuration constants
TRUCK_CAPACITY == 10
N_CONTENT == 25
OFFSET_CREDIT == 5
LEACHING_PENALTY == 10
OVERFLOW_PENALTY == 1000
\* diesel emission factor 0.9 kg CO2 per km, in tenths
TRANSPORT_COST_x10 == 9
\* the sequestration credit the solver hard-codes: tons * 1000 * 0.2
SEQ_CREDIT_PER_TON == 200
\* the configured sequestration credit, 0.2 kg CO2 per kg of biosolid, per ton
SEQ_CREDIT == 200
rain_lock_threshold_mm == 30
forecast_window_days == 2

\* ------------------------------------------------------------ input values
\* plant registry rows: no output; overflowing from the first day; several
\* trucks a day below capacity; exactly at capacity after the first day
StpRows == {[daily_output_tons |-> 0, storage_max_tons |-> 5],
            [daily_output_tons |-> 8, storage_max_tons |-> 5],
            [daily_output_tons |-> 25, storage_max_tons |-> 30],
            [daily_output_tons |-> 5, storage_max_tons |-> 5]}
RainVals == {0, 20, 40}
DemandVals == {0, 100, 1000}

Dates == 1..NumDays
Zones == 1..NumZone

VARIABLES
    config,           \* the configured rates
    stp_df,           \* plant registry: stp_id -> [daily_output_tons, storage_max_tons]
    farm_zone_map,    \* farm_id -> zone
    weather_df,       \* rainfall table: sequence of rows [date, rain: zone -> mm]
    demand_df,        \* date -> (farm_id -> kg N)
    distance_matrix,  \* <<stp_id, farm_id>> -> km
    rain_lock_matrix, \* date -> (zone -> BOOLEAN)
    stp_storage,      \* the solver's ledger: stp_id -> tons
    solution,         \* the delivery-event log
    day,              \* the date being processed (0 before the first day)
    pc,               \* position of the run
    daily_demands,    \* the day's residual demand: farm_id -> kg N
    valid_farms,      \* the day's farms that are not rain-locked, in registry order
    stp_status,       \* the day's plants sorted by urgency
    si,               \* index in stp_status of the plant being allocated
    candidates,       \* the current plant's candidates sorted by score
    ci,               \* index in candidates of the loop iteration
    m_day,            \* calculate_metrics: the date replayed last
    m_storage,        \* calculate_metrics: its own stp_storage
    total_overflow_penalty,
    total_offset_gain,
    total_sequestration_gain,
    total_leaching_penalty,   \* in tenths
    total_transport_emission, \* in tenths
    solution_csv      \* the saved log: [exists, rows]

inputs == <<config, stp_df, farm_zone_map, weather_df, demand_df, distance_matrix, rain_lock_matrix>>
engine == <<stp_storage, solution, day, daily_demands, valid_farms, stp_status, si, candidates, ci>>
metrics == <<m_day, m_storage, total_overflow_penalty, total_offset_gain,
             total_sequestration_gain, total_leaching_penalty, total_transport_emission>>
files == <<solution_csv>>
vars == <<inputs, engine, metrics, files, pc>>

STPs == DOMAIN stp_df
Farms == DOMAIN farm_zone_map

Max(a, b) == IF a >= b THEN a ELSE b
Min(a, b) == IF a <= b THEN a ELSE b

\* list.sort(key=..., reverse=True): a stable sort, ties keep their order
\* gt[i, j] tells whether the key of s[i] is greater than the key of s[j]
StableSortDesc(s, gt) ==
    LET n == Len(s)
        rank(i) == 1 + Cardinality({j \in 1..n :
                         gt[j, i] \/ (~gt[i, j] /\ j < i)})
    IN [k \in 1..n |-> s[CHOOSE i \in 1..n : rank(i) = k]]

\* ------------------------------------------------------------ DataManager

\* rain_df = weather_df.set_index('date').sort_index()
SortIndex(df) ==
    LET n == Len(df)
        rank(i) == 1 + Cardinality({j \in 1..n : df[j].date < df[i].date})
    IN [k \in 1..n |-> df[CHOOSE i \in 1..n : rank(i) = k]]

RECURSIVE RowSum(_, _, _, _)
RowSum(rows, z, from, to) ==
    IF from > to THEN 0
    ELSE rows[from].rain[z] + RowSum(rows, z, from + 1, to)

ComputeRainLockMatrixBackward(df) ==
    LET rain_df == SortIndex(df)
        n == Len(rain_df)
        rolling_sum(i, z) == RowSum(rain_df, z, Max(1, i - forecast_window_days + 1), i)
    IN [d \in {rain_df[i].date : i \in 1..n} |->
          LET i == CHOOSE k \in 1..n : rain_df[k].date = d
          IN [z \in Zones |-> rolling_sum(i, z) > rain_lock_threshold_mm]]
\* rolling(FixedForwardWindowIndexer(window), min_periods=1).sum() > threshold
ComputeRainLockMatrix(df) ==
    LET rain_df == SortIndex(df)
        n == Len(rain_df)
        rolling_sum(i, z) == RowSum(rain_df, z, i, Min(i + forecast_window_days - 1, n))
    IN [d \in {rain_df[i].date : i \in 1..n} |->
          LET i == CHOOSE k \in 1..n : rain_df[k].date = d
          IN [z \in Zones |-> rolling_sum(i, z) > rain_lock_threshold_mm]]

\* get_demand_for_day: a fresh dict of the date's row
GetDemandForDayCarried(d) == IF d = 1 THEN demand_df[d] ELSE daily_demands
GetDemandForDay(d) == demand_df[d]

\* ----------------------------------------------------------- GreedySolver

\* rain_locks.get(zone, False) on rain_lock_matrix.get(date_str, {})
IsRainLocked(d, z) ==
    IF d \in DOMAIN rain_lock_matrix /\ z \in DOMAIN rain_lock_matrix[d]
    THEN rain_lock_matrix[d][z] ELSE FALSE

\* farm_zone_map.items(): the farms in registry order
FarmList == [k \in 1..Cardinality(Farms) |-> k]

ValidFarmsAll(d) == FarmList
ValidFarms(d) ==
    LET Keep(f) == ~IsRainLocked(d, farm_zone_map[f])
    IN SelectSeq(FarmList, Keep)

StpStatusRow(s, storage) ==
    [stp_id |-> s,
     current |-> storage[s],
     max |-> stp_df[s].storage_max_tons,
     excess |-> Max(0, storage[s] - stp_df[s].storage_max_tons)]

\* key (excess, fill_ratio), fill_ratio = current / max compared as a fraction
UrgencyGT(a, b) ==
    \/ a.excess > b.excess
    \/ a.excess = b.excess /\ a.current * b.max > b.current * a.max

\* stp_status before the sort: one row per plant in registry order
StatusRows(storage) == [s \in 1..Cardinality(STPs) |-> StpStatusRow(s, storage)]

StpStatusUnsorted(storage) == StatusRows(storage)
StpStatus(storage) ==
    LET rows == StatusRows(storage)
    IN StableSortDesc(rows, [i, j \in DOMAIN rows |-> UrgencyGT(rows[i], rows[j])])

DemandOfUnbounded(demands, f) == IF f \in DOMAIN demands THEN demands[f] ELSE 1000
\* daily_demands.get(farm_id, 0)
DemandOf(demands, f) == IF f \in DOMAIN demands THEN demands[f] ELSE 0

UsefulNUncapped(package_n, n_demand) == package_n
\* useful_n = min(package_n, n_demand)
UsefulN(package_n, n_demand) == Min(package_n, n_demand)

\* excess_n = max(0, package_n - (n_demand * 1.1)), in tenths of a kg
ExcessN_x10(package_n, n_demand) == Max(0, 10 * package_n - 11 * n_demand)

\* the value of a lookup that finds nothing (every distance is 0 or more)
None == -1

\* self.distance_matrix.get((stp_id, farm_id))
DistanceGet(stp_id, farm_id) ==
    IF <<stp_id, farm_id>> \in DOMAIN distance_matrix
    THEN distance_matrix[<<stp_id, farm_id>>] ELSE None

IsNoneNever(dist) == FALSE
\* if dist is None: continue
IsNone(dist) == dist = None

Candidate(stp, f, demands) ==
    LET dist == DistanceGet(stp.stp_id, f)
        n_demand == DemandOf(demands, f)
        package_tons == Min(TRUCK_CAPACITY, stp.current)
        package_n == package_tons * N_CONTENT
        useful_n == UsefulN(package_n, n_demand)
        excess_n_x10 == ExcessN_x10(package_n, n_demand)
        credits_seq == package_tons * SEQ_CREDIT_PER_TON
        transport_emission_x10 == dist * config.transport_cost_x10
        leaching_cost_x10 == excess_n_x10 * config.leaching_penalty
    IN [farm_id |-> f,
        dist |-> dist,
        score |-> 10 * useful_n * config.offset_credit + 10 * credits_seq
                  - transport_emission_x10 - leaching_cost_x10,
        demand |-> n_demand,
        useful_n |-> useful_n,
        package_tons |-> package_tons]

ScoreGT(a, b) == a.score > b.score

CandidatesUnsorted(stp, farms, demands) ==
    LET Has(f) == ~IsNone(DistanceGet(stp.stp_id, f))
        known == SelectSeq(farms, Has)
    IN [k \in 1..Len(known) |-> Candidate(stp, known[k], demands)]
Candidates(stp, farms, demands) ==
    LET Has(f) == ~IsNone(DistanceGet(stp.stp_id, f))
        known == SelectSeq(farms, Has)
        cands == [k \in 1..Len(known) |-> Candidate(stp, known[k], demands)]
    IN StableSortDesc(cands, [i, j \in DOMAIN cands |-> ScoreGT(cands[i], cands[j])])

\* --------------------------------------------------------------- the run

\* the days on which a zone gets 40 mm of rain (the other days are dry)
WetDays == {{}, Dates, {1}, {NumDays}}

Odd(k) == k % 2 = 1
Abs(k) == IF k < 0 THEN -k ELSE k

\* The input tables.  Plants, farms and zones with an odd id share one row
\* of values and those with an even id another, so that the number of input
\* tables does not grow with the number of plants, farms and zones.
\* the rates of config.json
DefaultConfig ==
    [offset_credit |-> OFFSET_CREDIT, seq_credit_per_ton |-> SEQ_CREDIT,
     transport_cost_x10 |-> TRANSPORT_COST_x10, leaching_penalty |-> LEACHING_PENALTY]

\* the state of a run before its first day
Start ==
    /\ stp_storage = [s \in STPs |-> 0]
    /\ solution = <<>>
    /\ day = 0
    /\ pc = "day"
    /\ daily_demands = [f \in Farms |-> 0]
    /\ valid_farms = <<>>
    /\ stp_status = <<>>
    /\ si = 0
    /\ candidates = <<>>
    /\ ci = 0
    /\ m_day = 0
    /\ m_storage = [s \in STPs |-> 0]
    /\ total_overflow_penalty = 0
    /\ total_offset_gain = 0
    /\ total_sequestration_gain = 0
    /\ total_leaching_penalty = 0
    /\ total_transport_emission = 0
    /\ solution_csv = [exists |-> FALSE, rows |-> <<>>]

Init ==
    /\ config = DefaultConfig
    /\ \E n \in 1..MaxSTP, a, b \in StpRows :
          stp_df = [s \in 1..n |-> IF Odd(s) THEN a ELSE b]
    /\ \E m \in 1..MaxFarm, shared \in BOOLEAN :
          farm_zone_map = [f \in 1..m |-> IF shared THEN 1 ELSE ((f - 1) % NumZone) + 1]
    /\ \E a, b \in WetDays :
          weather_df = [d \in Dates |->
                          [date |-> d,
                           rain |-> [z \in Zones |->
                                       IF d \in (IF Odd(z) THEN a ELSE b) THEN 40 ELSE 0]]]
    /\ \E a, b \in DemandVals :
          demand_df = [d \in Dates |-> [f \in Farms |-> IF Odd(f) THEN a ELSE b]]
    /\ distance_matrix = [p \in STPs \X Farms |-> 20 + 140 * Abs(p[1] - p[2])]
    /\ rain_lock_matrix = ComputeRainLockMatrix(weather_df)
    /\ Start

\* _process_day up to the sort of stp_status
ProcessDay ==
    /\ pc = "day"
    /\ day < NumDays
    /\ day' = day + 1
    /\ LET replenished == [s \in STPs |-> stp_storage[s] + stp_df[s].daily_output_tons]
       IN /\ stp_storage' = replenished
          /\ stp_status' = StpStatus(replenished)
    /\ daily_demands' = GetDemandForDay(day')
    /\ valid_farms' = ValidFarms(day')
    /\ si' = 1
    /\ pc' = "stp"
    /\ UNCHANGED <<inputs, metrics, files, solution, candidates, ci>>

\* _dispatch_logic up to the sort of candidates
DispatchBegin ==
    /\ pc = "stp"
    /\ si <= Len(stp_status)
    /\ IF stp_status[si].current <= 0
       THEN /\ si' = si + 1
            /\ UNCHANGED <<pc, candidates, ci>>
       ELSE /\ candidates' = Candidates(stp_status[si], valid_farms, daily_demands)
            /\ ci' = 1
            /\ pc' = "cand"
            /\ UNCHANGED si
    /\ UNCHANGED <<inputs, metrics, files, stp_storage, solution, day, daily_demands, valid_farms, stp_status>>

IsUrgentAtCapacity(stp) == stp_storage[stp.stp_id] >= stp.max
IsUrgentNever(stp) == FALSE
IsUrgent(stp) == stp_storage[stp.stp_id] > stp.max

IsProfitableFlipped(cand) == cand.score < 0
IsProfitable(cand) == cand.score > 0

ShipTonsShort(stored) == Max(1, Min(TRUCK_CAPACITY, stored) - 1)
ShipTonsFullTruck(stored) == TRUCK_CAPACITY
\* ship_tons = min(TRUCK_CAPACITY, stp_storage[stp_id])
ShipTons(stored) == Min(TRUCK_CAPACITY, stored)

ResidualNoFloor(old, delivered_n) == old - delivered_n
\* max(0, daily_demands.get(farm_id, 0) - delivered_n)
ResidualAfter(old, delivered_n) == Max(0, old - delivered_n)

SameCandidate(i) == i
\* for cand in candidates: the loop moves on to the next candidate
NextCandidate(i) == i + 1

\* the loop ends: candidates exhausted, or the plant is empty (break)
DispatchExit ==
    /\ pc = "cand"
    /\ \/ ci > Len(candidates)
       \/ stp_storage[stp_status[si].stp_id] <= 0
    /\ si' = si + 1
    /\ pc' = "stp"
    /\ UNCHANGED <<inputs, metrics, files, stp_storage, solution, day, daily_demands, valid_farms,
                   stp_status, candidates, ci>>

\* neither urgent nor profitable: continue
DispatchSkip ==
    /\ pc = "cand"
    /\ ci <= Len(candidates)
    /\ stp_storage[stp_status[si].stp_id] > 0
    /\ ~IsUrgent(stp_status[si]) /\ ~IsProfitable(candidates[ci])
    /\ ci' = NextCandidate(ci)
    /\ UNCHANGED <<inputs, metrics, files, stp_storage, solution, day, daily_demands, valid_farms,
                   stp_status, si, candidates, pc>>

\* one truck is shipped to the candidate farm
DispatchShip ==
    /\ pc = "cand"
    /\ ci <= Len(candidates)
    /\ stp_storage[stp_status[si].stp_id] > 0
    /\ IsUrgent(stp_status[si]) \/ IsProfitable(candidates[ci])
    /\ LET stp_id == stp_status[si].stp_id
           farm_id == candidates[ci].farm_id
           ship_tons == ShipTons(stp_storage[stp_id])
           delivered_n == ship_tons * N_CONTENT
           old == DemandOf(daily_demands, farm_id)
       IN /\ solution' = Append(solution, [date |-> day, stp_id |-> stp_id,
                                            farm_id |-> farm_id, tons_delivered |-> ship_tons])
          /\ stp_storage' = [stp_storage EXCEPT ![stp_id] = @ - ship_tons]
          /\ daily_demands' = [f \in DOMAIN daily_demands \cup {farm_id} |->
                                 IF f = farm_id THEN ResidualAfter(old, delivered_n)
                                 ELSE daily_demands[f]]
    /\ ci' = NextCandidate(ci)
    /\ UNCHANGED <<inputs, metrics, files, day, valid_farms, stp_status, si, candidates, pc>>

\* _process_day returns after the last plant
EndDay ==
    /\ pc = "stp"
    /\ si > Len(stp_status)
    /\ pc' = "day"
    /\ UNCHANGED <<inputs, metrics, files, engine>>

\* solve returns the log after the last day and main writes it to
\* solution.csv (the rows are written and read back unchanged)
SolveReturn ==
    /\ pc = "day"
    /\ day = NumDays
    /\ pc' = "solved"
    /\ solution_csv' = [exists |-> TRUE, rows |-> solution]
    /\ UNCHANGED <<inputs, metrics, engine>>

\* ------------------------------------------------------ calculate_metrics

\* the log's rows of one date, in log order (daily_groups.get_group)
Moves(d) == SelectSeq(solution_csv.rows, LAMBDA e : e.date = d)

RECURSIVE DeductStorage(_, _, _)
\* stp_storage[stp_id] -= tons for the first k moves
DeductStorage(storage, moves, k) ==
    IF k = 0 THEN storage
    ELSE LET prev == DeductStorage(storage, moves, k - 1)
         IN [prev EXCEPT ![moves[k].stp_id] = @ - moves[k].tons_delivered]

RECURSIVE SumOver(_, _)
SumOver(S, f) ==
    IF S = {} THEN 0
    ELSE LET x == CHOOSE y \in S : TRUE IN f[x] + SumOver(S \ {x}, f)

PenaltyOnStorage(stored, max_s) == stored * OVERFLOW_PENALTY
\* excess = stp_storage[s_id] - max_s; penalty = excess * the configured rate
Penalty(stored, max_s) == (stored - max_s) * OVERFLOW_PENALTY

\* total_transport_emission over the first n rows of the day, in tenths:
\* dist = dm.distance_matrix.get((stp_id, farm_id), 0)
RECURSIVE TransportOf(_, _)
TransportOf(moves, n) ==
    IF n = 0 THEN 0
    ELSE LET p == <<moves[n].stp_id, moves[n].farm_id>>
             dist == IF p \in DOMAIN distance_matrix THEN distance_matrix[p] ELSE 0
         IN TransportOf(moves, n - 1) + dist * config.transport_cost_x10

\* the tons of the first n rows that went to farm f
RECURSIVE TonsToFarm(_, _, _)
TonsToFarm(moves, f, n) ==
    IF n = 0 THEN 0
    ELSE TonsToFarm(moves, f, n - 1)
         + (IF moves[n].farm_id = f THEN moves[n].tons_delivered ELSE 0)

\* the day's credits and leaching scored row by row
RECURSIVE FarmGainsPerEvent(_, _, _)
FarmGainsPerEvent(moves, demands, n) ==
    IF n = 0 THEN [offset |-> 0, seq |-> 0, leaching |-> 0]
    ELSE LET rest == FarmGainsPerEvent(moves, demands, n - 1)
             delivered_n == moves[n].tons_delivered * N_CONTENT
             demand_n == DemandOf(demands, moves[n].farm_id)
         IN [offset |-> rest.offset + UsefulN(delivered_n, demand_n) * config.offset_credit,
             seq |-> rest.seq + moves[n].tons_delivered * config.seq_credit_per_ton,
             leaching |-> rest.leaching
                          + ExcessN_x10(delivered_n, demand_n) * config.leaching_penalty]

\* farm_totals = moves.groupby('farm_id')['tons_delivered'].sum(), and the
\* credits and the leaching of each farm's total against the day's demand
FarmGains(moves, demands, n) ==
    LET served == {moves[k].farm_id : k \in 1..n}
        farm_totals == [f \in served |-> TonsToFarm(moves, f, n)]
        delivered_n == [f \in served |-> farm_totals[f] * N_CONTENT]
        demand_n == [f \in served |-> DemandOf(demands, f)]
    IN [offset |-> SumOver(served, [f \in served |->
                       UsefulN(delivered_n[f], demand_n[f]) * config.offset_credit]),
        seq |-> SumOver(served, [f \in served |->
                       farm_totals[f] * config.seq_credit_per_ton]),
        leaching |-> SumOver(served, [f \in served |->
                       ExcessN_x10(delivered_n[f], demand_n[f]) * config.leaching_penalty])]

MetricsMissingReplays ==
    /\ pc = "day"
    /\ ~solution_csv.exists
    /\ pc' = "replay"
    /\ UNCHANGED <<inputs, engine, metrics, files>>
\* the reconciler is started before the log is written: the file is not
\* there, the message is printed and nothing else is done
MetricsMissing ==
    /\ pc = "day"
    /\ ~solution_csv.exists
    /\ pc' = "aborted"
    /\ UNCHANGED <<inputs, engine, metrics, files>>

\* reading the log: an engine run that shipped nothing leaves a table without
\* columns, and solution['date'] fails
MetricsLoad ==
    /\ pc = "solved"
    /\ solution_csv.exists
    /\ pc' = IF solution_csv.rows = <<>> THEN "failed" ELSE "replay"
    /\ m_day' = 0
    /\ m_storage' = [s \in STPs |-> 0]
    /\ total_overflow_penalty' = 0
    /\ total_offset_gain' = 0
    /\ total_sequestration_gain' = 0
    /\ total_leaching_penalty' = 0
    /\ total_transport_emission' = 0
    /\ UNCHANGED <<inputs, engine, files>>

\* one iteration of the loop over all_dates
MetricsDay ==
    /\ pc = "replay"
    /\ m_day < NumDays
    /\ m_day' = m_day + 1
    /\ LET replenished == [s \in STPs |-> m_storage[s] + stp_df[s].daily_output_tons]
           moves == Moves(m_day')
           deducted == DeductStorage(replenished, moves, Len(moves))
           gains == FarmGains(moves, GetDemandForDay(m_day'), Len(moves))
           penalty == [s \in STPs |->
                         IF deducted[s] > stp_df[s].storage_max_tons
                         THEN Penalty(deducted[s], stp_df[s].storage_max_tons) ELSE 0]
       IN /\ m_storage' = [s \in STPs |->
                             IF deducted[s] > stp_df[s].storage_max_tons
                             THEN stp_df[s].storage_max_tons ELSE deducted[s]]
          /\ total_overflow_penalty' =
                 total_overflow_penalty + SumOver(STPs, penalty)
          /\ total_transport_emission' =
                 total_transport_emission + TransportOf(moves, Len(moves))
          /\ total_offset_gain' = total_offset_gain + gains.offset
          /\ total_sequestration_gain' = total_sequestration_gain + gains.seq
          /\ total_leaching_penalty' = total_leaching_penalty + gains.leaching
    /\ UNCHANGED <<inputs, engine, files, pc>>

\* the loop is over: the scoreboard is computed and written
MetricsDone ==
    /\ pc = "replay"
    /\ m_day = NumDays
    /\ pc' = "reported"
    /\ UNCHANGED <<inputs, engine, metrics, files>>

Next ==
    \/ ProcessDay
    \/ DispatchBegin
    \/ DispatchExit
    \/ DispatchSkip
    \/ DispatchShip
    \/ EndDay
    \/ SolveReturn
    \/ MetricsMissing
    \/ MetricsLoad
    \/ MetricsDay
    \/ MetricsDone

Spec == Init /\ [][Next]_vars

\* ------------------------------------- runs on other rates and sparse tables

\* the rates a config.json may give: the defaults, another sequestration
\* credit, and other values of the three remaining rates
ConfigVals ==
    {DefaultConfig,
     [DefaultConfig EXCEPT !.seq_credit_per_ton = 500],
     [offset_credit |-> 3, seq_credit_per_ton |-> SEQ_CREDIT,
      transport_cost_x10 |-> 12, leaching_penalty |-> 4]}

\* the plants of these runs: overflowing, and below capacity
SparseStpRows ==
    {[daily_output_tons |-> 8, storage_max_tons |-> 5],
     [daily_output_tons |-> 25, storage_max_tons |-> 30]}

\* the farms without a column in the demand table: none, the odd, the even
NoColumn == {{}, {f \in 1..MaxFarm : Odd(f)}, {f \in 1..MaxFarm : ~Odd(f)}}

\* the pairs without a distance: none, each plant's own number, the others
NoDistance ==
    {{}, {p \in (1..MaxSTP) \X (1..MaxFarm) : p[1] = p[2]},
         {p \in (1..MaxSTP) \X (1..MaxFarm) : p[1] # p[2]}}

\* a solver given a data manager whose tables have gaps, dry weather
InitSparse ==
    /\ config \in ConfigVals
    /\ \E n \in 1..MaxSTP, a, b \in SparseStpRows :
          stp_df = [s \in 1..n |-> IF Odd(s) THEN a ELSE b]
    /\ \E m \in 1..MaxFarm :
          farm_zone_map = [f \in 1..m |-> ((f - 1) % NumZone) + 1]
    /\ weather_df = [d \in Dates |-> [date |-> d, rain |-> [z \in Zones |-> 0]]]
    /\ \E a, b \in DemandVals, gone \in NoColumn :
          demand_df = [d \in Dates |->
                          [f \in Farms \ gone |-> IF Odd(f) THEN a ELSE b]]
    /\ \E gone \in NoDistance :
          distance_matrix = [p \in (STPs \X Farms) \ gone |-> 20 + 140 * Abs(p[1] - p[2])]
    /\ rain_lock_matrix = ComputeRainLockMatrix(weather_df)
    /\ Start

SpecSparse == InitSparse /\ [][Next]_vars

\* ------------------------------------------- the rain-lock table on its own

\* the rainfall tables: one row per date, the rows rotated by any number of
\* places; the zones with an odd id share one series, those with an even id
\* another
WeatherTables ==
    {[i \in Dates |->
        [date |-> ((i + shift - 1) % NumDays) + 1,
         rain |-> [z \in Zones |->
                     IF Odd(z) THEN a[((i + shift - 1) % NumDays) + 1]
                     ELSE b[((i + shift - 1) % NumDays) + 1]]]] :
        shift \in 0..(NumDays - 1), a \in [Dates -> RainVals], b \in [Dates -> RainVals]}

InitRain ==
    /\ weather_df \in WeatherTables
    /\ rain_lock_matrix = <<>>
    /\ pc = "load"
    /\ stp_df = <<>>
    /\ farm_zone_map = <<>>
    /\ demand_df = <<>>
    /\ distance_matrix = <<>>
    /\ stp_storage = <<>>
    /\ solution = <<>>
    /\ day = 0
    /\ daily_demands = [f \in Farms |-> 0]
    /\ valid_farms = <<>>
    /\ stp_status = <<>>
    /\ si = 0
    /\ candidates = <<>>
    /\ ci = 0
    /\ m_day = 0
    /\ m_storage = <<>>
    /\ total_overflow_penalty = 0
    /\ total_offset_gain = 0
    /\ total_sequestration_gain = 0
    /\ total_leaching_penalty = 0
    /\ total_transport_emission = 0
    /\ solution_csv = [exists |-> FALSE, rows |-> <<>>]
    /\ config = DefaultConfig

\* DataManager.__init__: self.rain_lock_matrix = self._compute_rain_lock_matrix()
BuildRainLock ==
    /\ pc = "load"
    /\ rain_lock_matrix' = ComputeRainLockMatrix(weather_df)
    /\ pc' = "loaded"
    /\ UNCHANGED <<config, stp_df, farm_zone_map, weather_df, demand_df, distance_matrix,
                   engine, metrics, files>>

NextRain == BuildRainLock

SpecRain == InitRain /\ [][NextRain]_vars

\* ================================================================ properties

\* positions in the log of the events of date d
EventsOn(d) == {i \in DOMAIN solution : solution[i].date = d}
EventsOnBy(d, s) == {i \in EventsOn(d) : solution[i].stp_id = s}
EventsOnTo(d, f) == {i \in EventsOn(d) : solution[i].farm_id = f}
TonsOf(I) == SumOver(I, [i \in I |-> solution[i].tons_delivered])
EndOfDay == pc = "day" /\ day > 0
Capacity(s) == stp_df[s].storage_max_tons

\* C1: at the end of every processed day every plant's ledger inventory is
\* at least 0 and at most the plant's storage capacity.
C1_InventoryWithinCapacity ==
    EndOfDay => \A s \in STPs : stp_storage[s] >= 0 /\ stp_storage[s] <= Capacity(s)

\* C2: every appended event carries at most a truckload and at most what the
\* plant's ledger held just before the dispatch, and no step leaves a ledger
\* entry negative.
C2_ShipWithinTruckAndInventory ==
    [][/\ \A s \in STPs : stp_storage'[s] >= 0
       /\ Len(solution') > Len(solution) =>
             LET e == solution'[Len(solution')]
             IN /\ Len(solution') = Len(solution) + 1
                /\ e.tons_delivered <= TRUCK_CAPACITY
                /\ e.tons_delivered <= stp_storage[e.stp_id]]_vars

\* a partial truck emptied a plant, and a full truck left another one stocked
C2_Witness ==
    /\ \E i \in DOMAIN solution :
          /\ solution[i].tons_delivered < TRUCK_CAPACITY
          /\ stp_storage[solution[i].stp_id] = 0
    /\ \E i \in DOMAIN solution : solution[i].tons_delivered = TRUCK_CAPACITY

\* C3: no event of the log goes to a farm whose zone is locked on the event's
\* date, and on every day the valid farms (and, for each plant, the candidate
\* farms) are exactly the farms whose zone's lock flag for the date is false.
Unlocked(d) == {f \in Farms : ~rain_lock_matrix[d][farm_zone_map[f]]}
C3_NoDeliveryToLockedZone ==
    /\ \A i \in DOMAIN solution : solution[i].farm_id \in Unlocked(solution[i].date)
    /\ pc \in {"stp", "cand"} =>
          {valid_farms[k] : k \in DOMAIN valid_farms} = Unlocked(day)
    /\ pc = "cand" =>
          {candidates[k].farm_id : k \in DOMAIN candidates} = Unlocked(day)

\* a day with one farm locked and the other one served
C3_Witness ==
    /\ pc = "cand"
    /\ Unlocked(day) # {} /\ Unlocked(day) # Farms
    /\ EventsOn(day) # {}

\* C4: within a day every farm's residual demand equals
\* max(0, original demand - nitrogen delivered to it so far that day), and no
\* step of the day raises it or makes it negative.
C4_ResidualDemand ==
    /\ [](day > 0 =>
            \A f \in Farms :
               daily_demands[f] =
                  Max(0, demand_df[day][f] - N_CONTENT * TonsOf(EventsOnTo(day, f))))
    /\ [][day' = day =>
            \A f \in Farms : daily_demands'[f] >= 0 /\ daily_demands'[f] <= daily_demands[f]]_vars

\* a farm with a positive demand got two trucks in one day, from two plants,
\* carrying more nitrogen than it asked for
C4_Witness ==
    /\ day > 0
    /\ \E f \in Farms :
          /\ demand_df[day][f] > 0
          /\ \E i, j \in EventsOnTo(day, f) : solution[i].stp_id # solution[j].stp_id
          /\ N_CONTENT * TonsOf(EventsOnTo(day, f)) > demand_df[day][f]

\* C5: a plant whose inventory after the day's replenishment exceeds its
\* capacity has at least one event on that day whenever a valid farm exists.
C5_OverflowingPlantDispatches ==
    EndOfDay =>
       \A k \in DOMAIN stp_status :
          (stp_status[k].current > Capacity(stp_status[k].stp_id) /\ Unlocked(day) # {})
             => EventsOnBy(day, stp_status[k].stp_id) # {}

\* an overflowing plant shipped although no farm asked for nitrogen (every
\* score is negative)
C5_Witness ==
    /\ EndOfDay
    /\ \A f \in Farms : demand_df[day][f] = 0
    /\ \E k \in DOMAIN stp_status :
          /\ stp_status[k].current > Capacity(stp_status[k].stp_id)
          /\ EventsOnBy(day, stp_status[k].stp_id) # {}

\* the one-plant, one-farm day of C6: no rain lock, a demand of more than two
\* truckloads of nitrogen, and a positive score for the farm
CeilDiv(a, b) == (a + b - 1) \div b
OnePlantOneFarmDay ==
    /\ EndOfDay
    /\ Cardinality(STPs) = 1 /\ Cardinality(Farms) = 1
    /\ Unlocked(day) = Farms
    /\ demand_df[day][1] > 2 * TRUCK_CAPACITY * N_CONTENT
    /\ Candidate(stp_status[1], 1, demand_df[day]).score > 0

\* C6 as stated: on such a day the log gets exactly
\* ceil(min(plant output, capacity) / truck capacity) events, each of a full
\* truck except possibly the last.
C6_Original ==
    OnePlantOneFarmDay =>
       /\ Cardinality(EventsOn(day)) =
             CeilDiv(Min(stp_df[1].daily_output_tons, Capacity(1)), TRUCK_CAPACITY)
       /\ \A i \in EventsOn(day) :
             solution[i].tons_delivered = TRUCK_CAPACITY \/ i = Len(solution)

\* C6 amended: on such a day the log gets exactly one event, of
\* min(truck capacity, the plant's inventory after replenishment) tons.
C6_OneEventPerFarm ==
    OnePlantOneFarmDay =>
       /\ Cardinality(EventsOn(day)) = 1
       /\ \A i \in EventsOn(day) :
             solution[i].tons_delivered = Min(TRUCK_CAPACITY, stp_status[1].current)

\* the plant held more than two truckloads and is not over capacity
C6_Witness ==
    /\ OnePlantOneFarmDay
    /\ stp_status[1].current > 2 * TRUCK_CAPACITY
    /\ stp_status[1].current <= Capacity(1)
    /\ Cardinality(EventsOn(day)) = 1

\* the rainfall of zone z on date d, read from the table as loaded
RainOn(d, z) == weather_df[CHOOSE i \in DOMAIN weather_df : weather_df[i].date = d].rain[z]
TableDates == {weather_df[i].date : i \in DOMAIN weather_df}

\* C7: the lock flag of (date, zone) is true exactly when the zone's rainfall
\* summed over the dates date..date+W-1 present in the table exceeds the
\* threshold; at the end of the table the sum runs over the remaining days.
C7_RainLockIsForwardWindowSum ==
    pc = "loaded" =>
       /\ DOMAIN rain_lock_matrix = TableDates
       /\ \A d \in TableDates, z \in Zones :
             LET window == {k \in d..(d + forecast_window_days - 1) : k \in TableDates}
             IN rain_lock_matrix[d][z] <=>
                   SumOver(window, [k \in window |-> RainOn(k, z)]) > rain_lock_threshold_mm

\* rows loaded out of date order; two days of 20 mm lock the first of them,
\* and the last day of the table, alone in its window, stays unlocked
C7_Witness ==
    /\ pc = "loaded"
    /\ weather_df[1].date # 1
    /\ \E z \in Zones :
          /\ RainOn(NumDays, z) = 20 /\ RainOn(NumDays - 1, z) = 20
          /\ rain_lock_matrix[NumDays - 1][z]
          /\ ~rain_lock_matrix[NumDays][z]

\* C9: the day's plants are allocated in descending order of
\* (excess, fill ratio) of their inventory after replenishment, so in the
\* day's events no plant at or below capacity comes before a plant above it.
OverCapacity(row) == row.current > row.max
StatusOf(s) == stp_status[CHOOSE k \in DOMAIN stp_status : stp_status[k].stp_id = s]
C9_UrgencyOrder ==
    (day > 0 /\ pc \in {"stp", "cand", "day"}) =>
       /\ {stp_status[k].stp_id : k \in DOMAIN stp_status} = STPs
       /\ Len(stp_status) = Cardinality(STPs)
       /\ \A i, j \in DOMAIN stp_status :
             i < j =>
                LET a == stp_status[i]
                    b == stp_status[j]
                    ea == Max(0, a.current - Capacity(a.stp_id))
                    eb == Max(0, b.current - Capacity(b.stp_id))
                IN \/ ea > eb
                   \/ ea = eb /\ a.current * Capacity(b.stp_id) >= b.current * Capacity(a.stp_id)
       /\ \A i, j \in EventsOn(day) :
             i < j => ~(/\ ~OverCapacity(StatusOf(solution[i].stp_id))
                        /\ OverCapacity(StatusOf(solution[j].stp_id)))

\* the second plant of the registry is over capacity, the first is not, both
\* shipped, and the second plant's events come first
C9_Witness ==
    /\ EndOfDay
    /\ Cardinality(STPs) >= 2
    /\ OverCapacity(StatusOf(2)) /\ ~OverCapacity(StatusOf(1))
    /\ \E i, j \in EventsOn(day) :
          i < j /\ solution[i].stp_id = 2 /\ solution[j].stp_id = 1

\* C10: on a day on which every farm's zone is locked the engine logs no event,
\* and the replay charges each plant's excess over capacity at the overflow
\* penalty rate and leaves an overflowing plant at its capacity.
AllLocked(d) == Unlocked(d) = {}
C10_LockedDayOverflowPenalised ==
    /\ [](\A d \in Dates : (d <= day /\ AllLocked(d)) => EventsOn(d) = {})
    /\ [][(pc = "replay" /\ m_day' = m_day + 1 /\ AllLocked(m_day')) =>
            LET held == [s \in STPs |-> m_storage[s] + stp_df[s].daily_output_tons]
                excess == [s \in STPs |-> Max(0, held[s] - Capacity(s))]
            IN /\ \A s \in STPs : m_storage'[s] = Min(held[s], Capacity(s))
               /\ total_overflow_penalty' =
                     total_overflow_penalty + OVERFLOW_PENALTY * SumOver(STPs, excess)]_vars

\* one plant whose daily output exceeds its capacity, one farm, locked on the
\* day just replayed: the plant is back at capacity and a penalty is charged
C10_Witness ==
    /\ pc = "replay" /\ m_day > 0
    /\ Cardinality(STPs) = 1 /\ Cardinality(Farms) = 1
    /\ AllLocked(m_day)
    /\ stp_df[1].daily_output_tons > Capacity(1)
    /\ m_storage[1] = Capacity(1)
    /\ total_overflow_penalty >=
          OVERFLOW_PENALTY * (stp_df[1].daily_output_tons - Capacity(1))

\* C11: a plant whose inventory, once the day's output is in, is exactly its
\* capacity, on a day with zero demand at every farm, ships nothing that day,
\* and the replay charges no overflow penalty for a plant that holds exactly
\* its capacity.
NoDemandOn(d) == \A f \in Farms : DemandOf(demand_df[d], f) = 0
C11_AtCapacityNoDemandNoDispatch ==
    /\ []((day > 0 /\ pc \in {"stp", "cand", "day"} /\ NoDemandOn(day)) =>
             \A k \in DOMAIN stp_status :
                 stp_status[k].current = stp_status[k].max =>
                     EventsOnBy(day, stp_status[k].stp_id) = {})
    /\ [][(pc = "replay" /\ m_day' = m_day + 1 /\ NoDemandOn(m_day')) =>
            LET held == [s \in STPs |-> m_storage[s] + stp_df[s].daily_output_tons]
                full == {s \in STPs : held[s] = Capacity(s)}
                rest == STPs \ full
                left == [s \in rest |-> held[s] - TonsOf(EventsOnBy(m_day', s))]
                excess == [s \in rest |-> Max(0, left[s] - Capacity(s))]
            IN total_overflow_penalty' =
                  total_overflow_penalty + OVERFLOW_PENALTY * SumOver(rest, excess)]_vars

\* a single plant that fills exactly to capacity on the first day, no demand,
\* a farm it could have reached: nothing logged for the day, no penalty
C11_Witness ==
    /\ pc = "replay" /\ m_day = 1
    /\ Cardinality(STPs) = 1
    /\ stp_df[1].daily_output_tons = Capacity(1)
    /\ NoDemandOn(1)
    /\ Unlocked(1) # {}
    /\ EventsOn(1) = {}
    /\ m_storage[1] = Capacity(1)
    /\ total_overflow_penalty = 0

\* C12: when the trucks other plants have already sent to a farm on the day
\* cover the farm's demand, a further truckload scored for that farm that
\* day has useful_n = 0 and the whole package nitrogen as excess (more than
\* zero), which is what its score charges for leaching.
SaturatedBefore(d, s, f) ==
    LET first == EventsOnTo(d, f) \ EventsOnBy(d, s)
    IN first # {} /\ N_CONTENT * TonsOf(first) >= DemandOf(demand_df[d], f)
C12_SecondLoadIsAllExcess ==
    pc = "cand" =>
       \A k \in DOMAIN candidates :
          SaturatedBefore(day, stp_status[si].stp_id, candidates[k].farm_id) =>
             LET cand == candidates[k]
                 package_n == cand.package_tons * N_CONTENT
                 excess_n_x10 == 10 * package_n - 11 * cand.demand
             IN /\ cand.useful_n = 0
                /\ excess_n_x10 > 0
                /\ cand.score = 10 * cand.package_tons * SEQ_CREDIT_PER_TON
                                - cand.dist * TRANSPORT_COST_x10
                                - excess_n_x10 * LEACHING_PENALTY

\* a farm with demand, saturated by one truck of an earlier plant, is scored
\* again by a later plant, which ships a second truck there
C12_Witness ==
    /\ pc = "cand"
    /\ \E k \in DOMAIN candidates :
          LET f == candidates[k].farm_id
              s == stp_status[si].stp_id
          IN /\ demand_df[day][f] > 0
             /\ \E i \in EventsOnTo(day, f) :
                   /\ solution[i].stp_id # s
                   /\ N_CONTENT * solution[i].tons_delivered >= demand_df[day][f]
             /\ candidates[k].useful_n = 0
             /\ \E j \in EventsOnBy(day, s) : solution[j].farm_id = f

\* C13: for every replayed day the reconciler adds, for each farm served that
\* day, the offset credit of min(total delivered N, original demand) and the
\* leaching penalty of max(0, total delivered N - 1.1 x original demand),
\* where the total is over all the day's events to the farm, whatever their
\* number, plants and order.
Served(d) == {f \in Farms : EventsOnTo(d, f) # {}}
DeliveredN(d, f) == N_CONTENT * TonsOf(EventsOnTo(d, f))
C13_ScoredOnAggregate ==
    [][(pc = "replay" /\ m_day' = m_day + 1) =>
          LET d == m_day'
              useful_n == [f \in Served(d) |->
                              Min(DeliveredN(d, f), DemandOf(demand_df[d], f))]
              excess_n_x10 == [f \in Served(d) |->
                              Max(0, 10 * DeliveredN(d, f) - 11 * DemandOf(demand_df[d], f))]
          IN /\ total_offset_gain' = total_offset_gain
                    + config.offset_credit * SumOver(Served(d), useful_n)
             /\ total_leaching_penalty' = total_leaching_penalty
                    + config.leaching_penalty * SumOver(Served(d), excess_n_x10)]_vars

\* a replayed day on which two plants served the same farm and the useful N
\* of the total is less than the useful N of the events taken one by one
C13_Witness ==
    /\ pc = "replay" /\ m_day > 0
    /\ \E f \in Served(m_day) :
          LET I == EventsOnTo(m_day, f)
              each == [i \in I |-> Min(N_CONTENT * solution[i].tons_delivered,
                                       demand_df[m_day][f])]
          IN /\ \E i, j \in I : solution[i].stp_id # solution[j].stp_id
             /\ demand_df[m_day][f] > 0
             /\ SumOver(I, each) > Min(DeliveredN(m_day, f), demand_df[m_day][f])
    /\ total_offset_gain > 0

\* C16: when the log file is missing the reconciliation stops there: nothing
\* is replayed, no total is computed, no scoreboard is written and the log
\* file is not created; a replay only ever runs on a log that exists.
C16_MissingLogAborts ==
    /\ [](pc \in {"replay", "reported"} => solution_csv.exists)
    /\ [](pc = "aborted" =>
             /\ ~solution_csv.exists
             /\ m_day = 0
             /\ total_overflow_penalty = 0 /\ total_offset_gain = 0
             /\ total_sequestration_gain = 0 /\ total_leaching_penalty = 0
             /\ total_transport_emission = 0)
    /\ [][pc # "aborted"]_vars

\* the reconciler was started after the engine's last day but before the log
\* was saved
C16_Witness ==
    /\ pc = "aborted"
    /\ day = NumDays
    /\ solution # <<>>
    /\ ~solution_csv.exists

\* C17: while a plant's candidates are walked, after a candidate that was
\* passed over (inventory not above capacity and score <= 0) no later
\* candidate of that plant gets a truck that day, and every event is appended
\* either while the plant's inventory is above its capacity or for a
\* candidate whose score is above 0.
ShippedTo(k) ==
    \E i \in EventsOnBy(day, stp_status[si].stp_id) :
        solution[i].farm_id = candidates[k].farm_id
C17_NoDispatchAfterUnprofitable ==
    /\ [](pc = "cand" =>
             \A j, k \in DOMAIN candidates :
                 (j < k /\ k < ci /\ ~ShippedTo(j)) => ~ShippedTo(k))
    /\ [][Len(solution') > Len(solution) =>
             \/ stp_storage[stp_status[si].stp_id] > stp_status[si].max
             \/ candidates[ci].score > 0]_vars

\* a plant below capacity shipped to its best farm, passed over the next one,
\* whose score is not above 0, and has stock left
C17_Witness ==
    /\ pc = "cand"
    /\ ci = 3
    /\ stp_status[si].current <= stp_status[si].max
    /\ ShippedTo(1)
    /\ ~ShippedTo(2)
    /\ candidates[2].score <= 0
    /\ stp_storage[stp_status[si].stp_id] > 0

\* C19: in the replay of the engine's own log every plant's replayed
\* inventory is at least 0 after the day's last subtraction (and so after
\* every one before it, the subtractions only lowering it).
C19_ReplayInventoryNonNegative ==
    pc \in {"replay", "reported"} => \A s \in STPs : m_storage[s] >= 0

\* C20: the log never holds two events with the same date, plant and farm,
\* and on every day each plant's events number at most the farms valid that
\* day and its tons at most the truck capacity times that number.
C20_OneTruckPerPlantFarmDay ==
    /\ \A i, j \in DOMAIN solution :
          (/\ solution[i].date = solution[j].date
           /\ solution[i].stp_id = solution[j].stp_id
           /\ solution[i].farm_id = solution[j].farm_id) => i = j
    /\ \A d \in Dates, s \in STPs :
          /\ Cardinality(EventsOnBy(d, s)) <= Cardinality(Unlocked(d))
          /\ TonsOf(EventsOnBy(d, s)) <= TRUCK_CAPACITY * Cardinality(Unlocked(d))

\* a plant holding more than two truckloads sent one full truck to each of
\* the two valid farms and keeps the rest
C20_Witness ==
    /\ EndOfDay
    /\ \E s \in STPs :
          /\ Cardinality(Unlocked(day)) = 2
          /\ Cardinality(EventsOnBy(day, s)) = 2
          /\ TonsOf(EventsOnBy(day, s)) = 2 * TRUCK_CAPACITY
          /\ stp_storage[s] > 0

\* C14: a farm whose pair with the plant has no distance is not among the
\* plant's candidates and never gets an event from that plant, while the
\* plant's candidates are exactly the other valid farms, and a plant over its
\* capacity with such a farm still ships at least one truck that day.
Known(s) == {f \in Farms : <<s, f>> \in DOMAIN distance_matrix}
C14_MissingDistanceSkipsFarm ==
    /\ \A i \in DOMAIN solution : solution[i].farm_id \in Known(solution[i].stp_id)
    /\ pc = "cand" =>
          /\ {candidates[k].farm_id : k \in DOMAIN candidates}
                = Unlocked(day) \cap Known(stp_status[si].stp_id)
          /\ Len(candidates) = Cardinality(Unlocked(day) \cap Known(stp_status[si].stp_id))
    /\ EndOfDay =>
          \A k \in DOMAIN stp_status :
              (/\ OverCapacity(stp_status[k])
               /\ Unlocked(day) \cap Known(stp_status[k].stp_id) # {}) =>
                  EventsOnBy(day, stp_status[k].stp_id) # {}

\* a plant without a distance to farm 1 has shipped to farm 2 only
C14_Witness ==
    /\ EndOfDay
    /\ \E s \in STPs :
          /\ Unlocked(day) = {1, 2}
          /\ Known(s) = {2}
          /\ \E i \in EventsOnBy(day, s) : solution[i].farm_id = 2
          /\ \A i \in EventsOnBy(day, s) : solution[i].farm_id # 1

\* C15: a farm without an entry in the day's demand is scored with demand 0,
\* useful nitrogen 0 and the whole package nitrogen as excess, and once a
\* truck has gone there its residual demand is recorded as 0.
NoEntry(d) == Farms \ DOMAIN demand_df[d]
C15_MissingDemandIsZero ==
    /\ pc = "cand" =>
          \A k \in DOMAIN candidates :
              candidates[k].farm_id \in NoEntry(day) =>
                 LET cand == candidates[k]
                 IN /\ cand.demand = 0
                    /\ cand.useful_n = 0
                    /\ cand.score = 10 * cand.package_tons * SEQ_CREDIT_PER_TON
                                    - cand.dist * config.transport_cost_x10
                                    - 10 * cand.package_tons * N_CONTENT
                                         * config.leaching_penalty
    /\ (day > 0 /\ pc \in {"stp", "cand", "day"}) =>
          \A i \in EventsOn(day) :
              solution[i].farm_id \in NoEntry(day) =>
                 /\ solution[i].farm_id \in DOMAIN daily_demands
                 /\ daily_demands[solution[i].farm_id] = 0

\* an overflowing plant has sent a truck to a farm without a demand entry
C15_Witness ==
    /\ pc = "cand"
    /\ \E k \in DOMAIN candidates :
          /\ candidates[k].farm_id \in NoEntry(day)
          /\ candidates[k].useful_n = 0
          /\ \E i \in EventsOnBy(day, stp_status[si].stp_id) :
                solution[i].farm_id = candidates[k].farm_id
          /\ daily_demands[candidates[k].farm_id] = 0

\* C18: every candidate's score is useful N x the configured offset credit
\* + package tons x the configured sequestration credit - distance x the
\* configured diesel factor - excess N x the configured leaching penalty.
C18_ScoreFollowsConfig ==
    pc = "cand" =>
       \A k \in DOMAIN candidates :
          LET cand == candidates[k]
              package_n == cand.package_tons * N_CONTENT
              excess_n_x10 == Max(0, 10 * package_n - 11 * cand.demand)
          IN cand.score = 10 * cand.useful_n * config.offset_credit
                          + 10 * cand.package_tons * config.seq_credit_per_ton
                          - cand.dist * config.transport_cost_x10
                          - excess_n_x10 * config.leaching_penalty

\* C21: every event carries more than 0 tons and at most the package size its
\* candidate was scored with, min(truck capacity, the plant's inventory when
\* its allocation began); an event carrying less than that is the plant's
\* last of the day and leaves the plant empty.
PackageOf(s) == Min(TRUCK_CAPACITY, StatusOf(s).current)
C21_TonsWithinPackage ==
    /\ \A i \in DOMAIN solution : solution[i].tons_delivered > 0
    /\ (day > 0 /\ pc \in {"stp", "cand", "day"}) =>
          \A i \in EventsOn(day) :
              LET s == solution[i].stp_id
              IN /\ solution[i].tons_delivered <= PackageOf(s)
                 /\ solution[i].tons_delivered < PackageOf(s) =>
                       /\ \A j \in EventsOnBy(day, s) : j <= i
                       /\ stp_storage[s] = 0

\* a plant that began the day with more than one truckload but less than two
\* sent a full truck and then the rest, less than the package scored
C21_Witness ==
    /\ EndOfDay
    /\ \E s \in STPs :
          \E i, j \in EventsOnBy(day, s) :
              /\ i < j
              /\ solution[i].tons_delivered = PackageOf(s)
              /\ solution[j].tons_delivered < PackageOf(s)
              /\ stp_storage[s] = 0

\* C22: a dispatch appends one event to the log and leaves the earlier
\* entries as they were, takes the shipped tons off the dispatching plant's
\* inventory and the shipped nitrogen (floored at 0) off the destination
\* farm's residual demand, and changes no other plant's inventory and no
\* other farm's residual demand; the demand table is never changed, and each
\* day's residual map starts as that day's row of the table.
C22_DispatchFrame ==
    /\ [][Len(solution') > Len(solution) =>
            LET s == stp_status[si].stp_id
                f == candidates[ci].farm_id
                e == solution'[Len(solution')]
                ship == e.tons_delivered
            IN /\ Len(solution') = Len(solution) + 1
               /\ SubSeq(solution', 1, Len(solution)) = solution
               /\ e.date = day /\ e.stp_id = s /\ e.farm_id = f
               /\ stp_storage'[s] = stp_storage[s] - ship
               /\ \A t \in STPs \ {s} : stp_storage'[t] = stp_storage[t]
               /\ daily_demands'[f] = Max(0, DemandOf(daily_demands, f) - ship * N_CONTENT)
               /\ \A g \in Farms \ {f} :
                     DemandOf(daily_demands', g) = DemandOf(daily_demands, g)]_vars
    /\ [][demand_df' = demand_df]_vars
    /\ [][day' # day => daily_demands' = demand_df[day']]_vars

\* a day begins with the table's demand at a farm that the day before was
\* left with less, after a dispatch that left another plant and another
\* farm as they were
C22_Witness ==
    /\ pc = "stp" /\ si = 1 /\ day > 1
    /\ Cardinality(STPs) > 1 /\ Cardinality(Farms) > 1
    /\ EventsOn(day) = {}
    /\ \E f \in Farms :
          /\ EventsOnTo(day - 1, f) # {}
          /\ demand_df[day - 1][f] > 0
          /\ daily_demands[f] = demand_df[day][f]
          /\ daily_demands[f] > 0
====
